---------------------------- MODULE Spec2Model ----------------------------
(***************************************************************************)
(* mini-redis-rust: a sharded in-memory key/value server (src/src/main.rs) *)
(* and its frame-oriented Connection (src/src/connection.rs).              *)
(*                                                                         *)
(* Four specifications share this module:                                  *)
(*   Spec      the server: the accept loop, one `process` handler per      *)
(*             connection, the sharded store and its per-shard mutexes.    *)
(*             read_frame is seen through its result (a frame, None, Err). *)
(*   FairSpec  the server under fair scheduling of the lock acquisition    *)
(*             and of the map access, for its liveness.                    *)
(*   ConnSpec  one Connection pair at byte level: write_frame on one side, *)
(*             read_frame / parse_frame on the other.                      *)
(*   SessSpec  one session: the handler of the first connection with its   *)
(*             read_frame taken at byte level.                             *)
(* Frame::check, Frame::parse and Command::from_frame belong to the        *)
(* mini_redis crate, which is not part of the sources; they are modelled   *)
(* from the written specification (sections 4.1 and 4.3).                  *)
(***************************************************************************)
EXTENDS Integers, Sequences, FiniteSets, TLC

\* ------------------------------------------------------------------ bounds

\* connections the listener may accept
MaxConns == 2
\* command frames read from one connection
MaxCmds == 2
\* frames (or raw byte strings) the peer of the Connection writes
MaxWrites == 2
\* stream reads counted within one read_frame call (the count saturates)
ChunkCap == 2

\* ------------------------------------------------------- program constants

\* main.rs:10  const N:u8=32
N == 32

\* ------------------------------------------------------------------- bytes

CR == 13
LF == 10

\* "GET", "get", "SET", "PING" as bytes
GET_UPPER == <<71, 69, 84>>
GET_LOWER == <<103, 101, 116>>
SET_UPPER == <<83, 69, 84>>
PING_UPPER == <<80, 73, 78, 71>>
OK_TEXT == <<79, 75>>

\* ------------------------------------------------------------------ frames

\* mini_redis::Frame, a tagged union; every variant is [type, val]
Simple(s) == [type |-> "Simple", val |-> s]
Error(s) == [type |-> "Error", val |-> s]
Integer(n) == [type |-> "Integer", val |-> n]
Bulk(b) == [type |-> "Bulk", val |-> b]
Null == [type |-> "Null", val |-> <<>>]
Array(items) == [type |-> "Array", val |-> items]

\* no frame held (the handler's `frame` / `response` binding is not live)
NoFrame == [type |-> "None", val |-> <<>>]

\* the results of read_frame that are no frame (connection.rs:30, 32, 50)
\*   Ok(None); Err("connection reset by peer"); Err of Frame::check / parse
ReadNone == [type |-> "ReadNone", val |-> <<>>]
ReadErrReset == [type |-> "ReadErrReset", val |-> <<>>]
ReadErrProtocol == [type |-> "ReadErrProtocol", val |-> <<>>]

IsFrame(r) == r.type \in {"Simple", "Error", "Integer", "Bulk", "Null", "Array"}

\* ---------------------------------------------------- 64-bit unsigned values

\* A u64 is held as three limbs <<hi, mid, lo>> in base 10^7, its value being
\* hi * 10^14 + mid * 10^7 + lo, so that values beyond the native
\* integers (up to u64::MAX) can be formatted and parsed digit by digit.
Base == 10 * 1000 * 1000
U64_MAX == <<184467, 4407370, 9551615>>
FromNat(n) == <<0, 0, n>>
NoU64 == <<-1, -1, -1>>

Leq64(a, b) ==
    \/ a[1] < b[1]
    \/ a[1] = b[1] /\ a[2] < b[2]
    \/ a[1] = b[1] /\ a[2] = b[2] /\ a[3] <= b[3]

RECURSIVE Pow10(_)
Pow10(i) == IF i = 0 THEN 1 ELSE 10 * Pow10(i - 1)

\* the decimal digits of n, most significant first, as ASCII
RECURSIVE DigitsOf(_)
DigitsOf(n) ==
    IF n < 10 THEN <<48 + n>> ELSE Append(DigitsOf(n \div 10), 48 + (n % 10))

\* one lower limb: exactly seven digits, zero padded
PadLimb(n) == [i \in 1 .. 7 |-> 48 + ((n \div Pow10(7 - i)) % 10)]

\* connection.rs:105  write!(&mut buf, "{}", val): Display for u64
fmt_u64(v) ==
    IF v[1] > 0 THEN DigitsOf(v[1]) \o PadLimb(v[2]) \o PadLimb(v[3])
    ELSE IF v[2] > 0 THEN DigitsOf(v[2]) \o PadLimb(v[3])
    ELSE DigitsOf(v[3])

\* v * 10 + d on limbs; the high limb is left unreduced for the range check
MulAdd(v, d) ==
    LET lo == v[3] * 10 + d
        mid == v[2] * 10 + (lo \div Base)
        hi == v[1] * 10 + (mid \div Base)
    IN  <<hi, mid % Base, lo % Base>>

RECURSIVE AtoiFrom(_, _, _)
AtoiFrom(line, i, acc) ==
    IF i > Len(line) THEN acc
    ELSE IF line[i] \notin 48 .. 57 THEN NoU64
    ELSE LET next == MulAdd(acc, line[i] - 48)
         IN  IF Leq64(next, U64_MAX) THEN AtoiFrom(line, i + 1, next) ELSE NoU64

\* the decimal field of a frame header (specification 4.1): NoU64 for an
\* empty or non-numeric field and for a value that overflows 64 bits
atoi(line) == IF line = <<>> THEN NoU64 ELSE AtoiFrom(line, 1, FromNat(0))

\* ---------------------------------------------------------- keys and values

\* keys, as the bytes of the key string: "a", "b", "c"
Keys == {<<97>>, <<98>>, <<99>>}

\* values: the empty byte sequence and "v"
Values == {<<>>, <<118>>}

\* no value (absent from a map; also "unknown" for the history variables)
NoValue == <<0, 0>>

\* DefaultHasher's 64-bit result for a key.  SipHash is not computed here:
\* the three keys stand for keys whose hashes are 3, 35 and 4, so that "a"
\* and "b" share shard 3 and "c" lives in shard 4.
Hash(key) ==
    CASE key = <<97>> -> 3
      [] key = <<98>> -> 35
      [] OTHER -> 4

\* main.rs:23-27
index(key) == Hash(key) % N

Shards == 0 .. (N - 1)
NoShard == N

Conns == 1 .. MaxConns


\* --------------------------------------------- the frame codec (mini_redis)

\* Frame::check and Frame::parse work on a cursor: buf is the byte sequence,
\* pos the number of bytes already consumed.  A result is
\* [st |-> "ok" | "incomplete" | "error", pos, ...].
Incomplete == [st |-> "incomplete", pos |-> 0]
ProtocolError == [st |-> "error", pos |-> 0]

Min(S) == CHOOSE x \in S : \A y \in S : x <= y

\* the bytes up to the next CRLF; Incomplete when the buffer holds none
get_line(buf, pos) ==
    LET ends == {i \in (pos + 1) .. (Len(buf) - 1) :
                    buf[i] = CR /\ buf[i + 1] = LF}
    IN  IF ends = {} THEN Incomplete
        ELSE [st |-> "ok", pos |-> Min(ends) + 1,
              line |-> SubSeq(buf, pos + 1, Min(ends) - 1)]

\* a decimal line
get_decimal(buf, pos) ==
    LET l == get_line(buf, pos)
    IN  IF l.st # "ok" THEN l
        ELSE IF atoi(l.line) = NoU64 THEN ProtocolError
        ELSE [st |-> "ok", pos |-> l.pos, val |-> atoi(l.line)]

\* skip n bytes; Incomplete when fewer remain
skip(buf, pos, n) ==
    IF Len(buf) - pos < n THEN Incomplete ELSE [st |-> "ok", pos |-> pos + n]

\* a declared length or count as a number of bytes or items: one that does
\* not fit a limb exceeds whatever is buffered
AsCount(v) == IF v[1] > 0 \/ v[2] > 0 THEN Base ELSE v[3]

\* Frame::check (specification 4.1): is there one complete, well-formed frame
\* at pos?  Incomplete when the buffer ends first, ProtocolError for an
\* unknown type byte or a non-numeric or overflowing length.
RECURSIVE check(_, _), CheckItems(_, _, _)
check(buf, pos) ==
    IF pos >= Len(buf) THEN Incomplete
    ELSE LET b == buf[pos + 1]
         IN  CASE b \in {43, 45} ->
                    LET l == get_line(buf, pos + 1)
                    IN  IF l.st = "ok" THEN [st |-> "ok", pos |-> l.pos] ELSE l
               [] b = 58 ->
                    LET d == get_decimal(buf, pos + 1)
                    IN  IF d.st = "ok" THEN [st |-> "ok", pos |-> d.pos] ELSE d
               [] b = 36 ->
                    IF pos + 1 >= Len(buf) THEN Incomplete
                    ELSE IF buf[pos + 2] = 45 THEN skip(buf, pos + 1, 4)
                    ELSE LET d == get_decimal(buf, pos + 1)
                         IN  IF d.st # "ok" THEN d
                             ELSE skip(buf, d.pos, AsCount(d.val) + 2)
               [] b = 42 ->
                    LET d == get_decimal(buf, pos + 1)
                    IN  IF d.st # "ok" THEN d
                        ELSE CheckItems(buf, d.pos, AsCount(d.val))
               [] OTHER -> ProtocolError

CheckItems(buf, pos, n) ==
    IF n = 0 THEN [st |-> "ok", pos |-> pos]
    ELSE LET c == check(buf, pos)
         IN  IF c.st # "ok" THEN c ELSE CheckItems(buf, c.pos, n - 1)

\* Frame::parse (specification 4.1): the frame at pos of a buffer that check
\* found complete; the only error left is a "$-" line that is not "$-1".
RECURSIVE parse(_, _), ParseItems(_, _, _, _)
parse(buf, pos) ==
    IF pos >= Len(buf) THEN Incomplete
    ELSE LET b == buf[pos + 1]
         IN  CASE b \in {43, 45} ->
                    LET l == get_line(buf, pos + 1)
                    IN  IF l.st # "ok" THEN l
                        ELSE [st |-> "ok", pos |-> l.pos,
                              frame |-> IF b = 43 THEN Simple(l.line)
                                        ELSE Error(l.line)]
               [] b = 58 ->
                    LET d == get_decimal(buf, pos + 1)
                    IN  IF d.st # "ok" THEN d
                        ELSE [st |-> "ok", pos |-> d.pos,
                              frame |-> Integer(d.val)]
               [] b = 36 ->
                    IF pos + 1 >= Len(buf) THEN Incomplete
                    ELSE IF buf[pos + 2] = 45
                    THEN LET l == get_line(buf, pos + 1)
                         IN  IF l.st # "ok" THEN l
                             ELSE IF l.line # <<45, 49>> THEN ProtocolError
                             ELSE [st |-> "ok", pos |-> l.pos, frame |-> Null]
                    ELSE LET d == get_decimal(buf, pos + 1)
                         IN  IF d.st # "ok" THEN d
                             ELSE IF Len(buf) - d.pos < AsCount(d.val) + 2
                             THEN Incomplete
                             ELSE [st |-> "ok",
                                   pos |-> d.pos + AsCount(d.val) + 2,
                                   frame |-> Bulk(SubSeq(buf, d.pos + 1,
                                                d.pos + AsCount(d.val)))]
               [] b = 42 ->
                    LET d == get_decimal(buf, pos + 1)
                    IN  IF d.st # "ok" THEN d
                        ELSE ParseItems(buf, d.pos, AsCount(d.val), <<>>)
               [] OTHER -> ProtocolError

ParseItems(buf, pos, n, out) ==
    IF n = 0 THEN [st |-> "ok", pos |-> pos, frame |-> Array(out)]
    ELSE LET q == parse(buf, pos)
         IN  IF q.st # "ok" THEN q
             ELSE ParseItems(buf, q.pos, n - 1, Append(out, q.frame))

\* ------------------------------------------------ Connection (connection.rs)

\* connection.rs:103  let mut buf = [0u8; 12]
DecimalBufLen == 12

\* The writing side of a Connection: `stream` is what the BufWriter holds,
\* `wire` what it has handed to the socket, `ok` turns FALSE at the first
\* `?` that returns an error, after which the call does nothing more.
put(st, bytes) == IF st.ok THEN [st EXCEPT !.stream = @ \o bytes] ELSE st

\* faulty variant: the bytes stay in the BufWriter
flush_lazy(st) == st

\* connection.rs:96  self.stream.flush()
flush(st) ==
    IF st.ok THEN [st EXCEPT !.wire = @ \o st.stream, !.stream = <<>>] ELSE st

\* connection.rs:99-112  write_decimal: the text is formatted into a buffer
\* of DecimalBufLen bytes; write! fails (WriteZero) when it does not fit
write_decimal(st, val) ==
    IF ~st.ok THEN st
    ELSE IF Len(fmt_u64(val)) > DecimalBufLen THEN [st EXCEPT !.ok = FALSE]
    ELSE put(put(st, fmt_u64(val)), <<CR, LF>>)

\* connection.rs:53-98  write_frame, recursing for the items of an Array
RECURSIVE write_frame(_, _), WriteItems(_, _, _)
write_frame(st, frame) ==
    flush(CASE frame.type = "Simple" ->
                 put(put(put(st, <<43>>), frame.val), <<CR, LF>>)
            [] frame.type = "Error" ->
                 put(put(put(st, <<45>>), frame.val), <<CR, LF>>)
            [] frame.type = "Integer" ->
                 write_decimal(put(st, <<58>>), frame.val)
            [] frame.type = "Null" ->
                 put(st, <<36, 45, 49, CR, LF>>)
            [] frame.type = "Bulk" ->
                 put(put(write_decimal(put(st, <<36>>),
                                       FromNat(Len(frame.val))),
                         frame.val), <<CR, LF>>)
            [] OTHER ->
                 WriteItems(write_decimal(put(st, <<42>>),
                                          FromNat(Len(frame.val))),
                            frame.val, 1))

WriteItems(st, items, i) ==
    IF i > Len(items) \/ ~st.ok THEN st
    ELSE WriteItems(write_frame(st, items[i]), items, i + 1)

\* faulty variant: the whole buffer is dropped
advance_clear(buf, len) == <<>>

\* BytesMut::advance (connection.rs:44)
advance(buf, len) == SubSeq(buf, len + 1, Len(buf))

\* faulty variant: an error of Frame::check is taken for an incomplete frame
parse_frame_lenient(buf) ==
    LET c == check(buf, 0)
    IN  IF c.st = "ok"
        THEN [st |-> "frame", frame |-> parse(buf, 0).frame,
              buffer |-> advance(buf, c.pos)]
        ELSE [st |-> "none", frame |-> NoFrame, buffer |-> buf]

\* connection.rs:37-52  parse_frame: [st |-> "frame" | "none" | "error",
\* frame, buffer], buffer being self.buffer afterwards
parse_frame(buf) ==
    LET c == check(buf, 0)
    IN  CASE c.st = "ok" ->
                LET q == parse(buf, 0)
                IN  IF q.st = "ok"
                    THEN [st |-> "frame", frame |-> q.frame,
                          buffer |-> advance(buf, c.pos)]
                    ELSE [st |-> "error", frame |-> ReadErrProtocol,
                          buffer |-> buf]
          [] c.st = "incomplete" ->
                [st |-> "none", frame |-> NoFrame, buffer |-> buf]
          [] OTHER ->
                [st |-> "error", frame |-> ReadErrProtocol, buffer |-> buf]

\* faulty variant: the bytes read replace what the buffer held
read_buf_overwrite(buf, chunk) == chunk

\* AsyncReadExt::read_buf (connection.rs:27): the bytes read are appended
read_buf(buf, chunk) == buf \o chunk

\* faulty variant: the end of the stream is always a clean end of session
eof_result_none(buf) == ReadNone

\* connection.rs:27-33  the stream yielded zero bytes
eof_result(buf) == IF buf = <<>> THEN ReadNone ELSE ReadErrReset

\* ---------------------------------------------------------------- commands

ToLower(b) == IF b \in 65 .. 90 THEN b + 32 ELSE b

to_lowercase(s) == [i \in 1 .. Len(s) |-> ToLower(s[i])]

\* mini_redis::Command::from_frame (specification 4.3): the frame must be an
\* Array of Bulk frames, element 1 the command name matched without regard
\* to case, the rest positional arguments.  "Err" is a parse error (not an
\* array, no name, wrong arity); "Unknown" is any other command name.
from_frame(frame) ==
    IF frame.type # "Array" \/ Len(frame.val) = 0
    THEN [cmd |-> "Err"]
    ELSE IF \E i \in 1 .. Len(frame.val) : frame.val[i].type # "Bulk"
    THEN [cmd |-> "Err"]
    ELSE LET name == to_lowercase(frame.val[1].val)
             argc == Len(frame.val) - 1
         IN  CASE name = GET_LOWER ->
                    IF argc = 1
                    THEN [cmd |-> "Get", key |-> frame.val[2].val]
                    ELSE [cmd |-> "Err"]
               [] name = to_lowercase(SET_UPPER) ->
                    IF argc = 2
                    THEN [cmd |-> "Set", key |-> frame.val[2].val,
                          value |-> frame.val[3].val]
                    ELSE [cmd |-> "Err"]
               [] OTHER -> [cmd |-> "Unknown"]

\* command frames a client sends
GetFrame(name, k) == Array(<<Bulk(name), Bulk(k)>>)
SetFrame(k, v) == Array(<<Bulk(SET_UPPER), Bulk(k), Bulk(v)>>)

\* the frames clients send in the model: every GET and SET over Keys and
\* Values, a lower-case "get", an unknown command (PING), a GET without its
\* key (wrong arity)
ClientFrames ==
    {GetFrame(GET_UPPER, k) : k \in Keys}
        \cup {SetFrame(k, v) : k \in Keys, v \in Values}
        \cup {GetFrame(GET_LOWER, <<97>>),
              Array(<<Bulk(PING_UPPER)>>),
              Array(<<Bulk(GET_UPPER)>>)}

\* what one call of read_frame can return to the handler: a frame, None
\* (the peer closed between frames), or an error (the peer closed inside a
\* frame, or the bytes are no frame)
ReadResults == ClientFrames \cup {ReadNone, ReadErrReset, ReadErrProtocol}

IsSetOf(frame, k) ==
    LET cmd == from_frame(frame) IN cmd.cmd = "Set" /\ cmd.key = k

IsGetOf(frame, k) ==
    LET cmd == from_frame(frame) IN cmd.cmd = "Get" /\ cmd.key = k

\* ------------------------------------------------------------------- state

VARIABLES
    \* --- server (main.rs)
    pc,         \* per connection: where its handler task is
    cur,        \* per connection: `frame`, the frame read_frame returned
    response,   \* per connection: `response`, the reply frame being built
    held,       \* per connection: the shard whose MutexGuard it holds
    db,         \* the Shardeddb: per shard, a map from key to value
    poisoned,   \* the shards whose Mutex is poisoned
    nread,      \* per connection: frames read_frame has returned
    nwritten,   \* per connection: reply frames written and flushed
    \* --- history
    lastSet,    \* per key: the value of the latest insert, or NoValue
    prevSet,    \* per key: the value of the insert before that, or NoValue
    acked,      \* per key: <<v, c>> once the OK of SET key v was flushed on
                \*          connection c, no other SET to the key being in
                \*          progress since that SET was read; else NoAck
    contended,  \* per key: SETs to the key in progress have overlapped
    expect,     \* per connection: acked[key] as it was when its GET was
                \*          read, NoAck once another SET to the key is read
    lastLock    \* per key: the value of the latest SET of the key to have
                \*          acquired the shard lock, or NoValue

VARIABLES
    \* --- one Connection pair (connection.rs)
    wstream,    \* the writer's BufWriter: bytes written and not yet flushed
    wire,       \* bytes handed to the socket and not yet read by the reader
    wres,       \* the result of the writer's last write_frame
    closed,     \* the writer has closed its stream
    buffer,     \* the reader's `buffer` (BytesMut)
    rpc,        \* the reader's position inside read_frame
    rlog,       \* history: the results of the reader's read_frame calls
    wlog,       \* history: the frames given to the writer's write_frame
    allbytes,   \* history: every byte handed to the socket
    rawsent,    \* history: the peer wrote bytes without a Connection
    nreads      \* history: stream reads in this read_frame call, saturating

connVars == <<wstream, wire, wres, closed, buffer, rpc, rlog, wlog, allbytes,
              rawsent, nreads>>

srvVars == <<pc, cur, response, held, db, poisoned, nread, nwritten,
             lastSet, prevSet, acked, contended, expect, lastLock>>

vars == <<srvVars, connVars>>

\* handler positions
PanicStates == {"panic_read", "panic_cmd", "panic_unimpl", "panic_lock",
                "panic_write"}
BusyStates == {"dispatch", "lock", "locked", "write"}

NoAck == <<NoValue, 0>>

EmptyMap == [k \in {} |-> NoValue]

\* main.rs:15-21  new_sharded_db: N empty maps
new_sharded_db == [s \in Shards |-> EmptyMap]

SrvInit ==
    /\ pc = [c \in Conns |-> "idle"]
    /\ cur = [c \in Conns |-> NoFrame]
    /\ response = [c \in Conns |-> NoFrame]
    /\ held = [c \in Conns |-> NoShard]
    /\ db = new_sharded_db
    /\ poisoned = {}
    /\ nread = [c \in Conns |-> 0]
    /\ nwritten = [c \in Conns |-> 0]
    /\ lastSet = [k \in Keys |-> NoValue]
    /\ prevSet = [k \in Keys |-> NoValue]
    /\ acked = [k \in Keys |-> NoAck]
    /\ contended = [k \in Keys |-> FALSE]
    /\ expect = [c \in Conns |-> NoAck]
    /\ lastLock = [k \in Keys |-> NoValue]

\* the Connection pair before anything is written (connection.rs:15-18)
ConnIdle ==
    /\ wstream = <<>>
    /\ wire = <<>>
    /\ wres = "none"
    /\ closed = FALSE
    /\ buffer = <<>>
    /\ rpc = "idle"
    /\ rlog = <<>>
    /\ wlog = <<>>
    /\ allbytes = <<>>
    /\ rawsent = FALSE
    /\ nreads = 0

\* ---------------------------------------------------------------- the store

\* HashMap::get on one shard's map
MapGet(m, key) == IF key \in DOMAIN m THEN m[key] ELSE NoValue

\* HashMap::insert on one shard's map: insert or overwrite
MapInsert(m, key, value) ==
    [k \in DOMAIN m \cup {key} |-> IF k = key THEN value ELSE m[k]]

\* faulty variant: the Set arm keeps an entry that is already there
SetInsertIfAbsent(shards, key, value) ==
    IF key \in DOMAIN shards[index(key)]
    THEN shards
    ELSE [shards EXCEPT
            ![index(key)] = MapInsert(shards[index(key)], key, value)]

\* faulty variant: the Set arm picks the shard by the value instead of the key
SetInsertByValue(shards, key, value) ==
    [shards EXCEPT
        ![index(value)] = MapInsert(shards[index(value)], key, value)]

\* faulty variant: the Set arm replaces the shard's map by the one entry
SetInsertWholeShard(shards, key, value) ==
    [shards EXCEPT ![index(key)] = MapInsert(EmptyMap, key, value)]

\* faulty variant: the Set arm always inserts into the first shard
SetInsertFirstShard(shards, key, value) ==
    [shards EXCEPT ![0] = MapInsert(shards[0], key, value)]

\* main.rs:54-55  the Set arm's store update
SetInsert(shards, key, value) ==
    [shards EXCEPT ![index(key)] = MapInsert(shards[index(key)], key, value)]

\* faulty variant: the Get arm always looks in the first shard
GetLookupFirstShard(shards, key) ==
    IF MapGet(shards[0], key) # NoValue
    THEN Bulk(MapGet(shards[0], key))
    ELSE Null

\* faulty variant: the Get arm takes an empty value for a missing one
GetLookupEmptyIsNull(shards, key) ==
    IF MapGet(shards[index(key)], key) \notin {NoValue, <<>>}
    THEN Bulk(MapGet(shards[index(key)], key))
    ELSE Null

\* main.rs:60-68  the Get arm's lookup and reply
GetLookup(shards, key) ==
    IF MapGet(shards[index(key)], key) # NoValue
    THEN Bulk(MapGet(shards[index(key)], key))
    ELSE Null

\* faulty variant: one lock for the whole store
LockFreeGlobal(s) == \A d \in Conns : held[d] = NoShard

\* faulty variant: the lock excludes nobody
LockFreeAlways(s) == TRUE

\* faulty variant: a waiter is let in only when it is the only one waiting
LockFreeYielding(s) ==
    /\ \A d \in Conns : held[d] # s
    /\ Cardinality({d \in Conns : /\ pc[d] = "lock"
                                  /\ index(from_frame(cur[d]).key) = s}) <= 1

\* std::sync::Mutex::lock on shard s can proceed: nobody holds its guard
LockFree(s) == \A d \in Conns : held[d] # s

\* faulty variant: a panic aborts the process, ending every task and the listener
PanicAborts(c, how) == [d \in Conns |-> IF d = c THEN how ELSE "aborted"]

\* a panic inside the task of connection c: tokio catches the unwind at the
\* task boundary (main.rs:39-41), so only that task ends
Panic(c, how) == [pc EXCEPT ![c] = how]

\* connections whose handler is working on a SET to key k
SetsInProgress(k) == {c \in Conns : pc[c] \in BusyStates /\ IsSetOf(cur[c], k)}

\* -------------------------------------------------------------- the server

\* main.rs:35-42, 47  accept a socket and spawn its handler
Accept(c) ==
    /\ pc[c] = "idle"
    /\ \A d \in Conns : d < c => pc[d] # "idle"
    /\ pc' = [pc EXCEPT ![c] = "read"]
    /\ UNCHANGED <<cur, response, held, db, poisoned, nread, nwritten,
                   lastSet, prevSet, acked, contended, expect, lastLock>>
    /\ UNCHANGED connVars

\* main.rs:49  connection.read_frame().await.unwrap() returns r:
\*   Ok(Some(frame)) enters the loop body, Ok(None) leaves the loop,
\*   Err(_) panics in unwrap
ReadFrame(c, r) ==
    /\ pc[c] = "read"
    /\ r \in ClientFrames => nread[c] < MaxCmds
    /\ IF r \in ClientFrames
       THEN /\ cur' = [cur EXCEPT ![c] = r]
            /\ nread' = [nread EXCEPT ![c] = @ + 1]
            /\ pc' = [pc EXCEPT ![c] = "dispatch"]
       ELSE /\ UNCHANGED <<cur, nread>>
            /\ pc' = IF r = ReadNone
                     THEN [pc EXCEPT ![c] = "returned"]
                     ELSE Panic(c, "panic_read")
    /\ LET cmd == from_frame(r)
       IN  IF r \in ClientFrames /\ cmd.cmd = "Set"
           THEN /\ acked' = [acked EXCEPT ![cmd.key] = NoAck]
                /\ contended' = [contended EXCEPT ![cmd.key] =
                                    @ \/ SetsInProgress(cmd.key) # {}]
                /\ expect' = [d \in Conns |->
                                IF IsGetOf(cur[d], cmd.key) THEN NoAck
                                ELSE expect[d]]
           ELSE /\ UNCHANGED <<acked, contended>>
                /\ expect' = [expect EXCEPT ![c] =
                                IF r \in ClientFrames /\ cmd.cmd = "Get"
                                THEN acked[cmd.key] ELSE NoAck]
    /\ UNCHANGED <<response, held, db, poisoned, nwritten, lastSet, prevSet,
                   lastLock>>
    /\ UNCHANGED connVars

\* main.rs:51, 70  Command::from_frame(frame).unwrap() and the match
Dispatch(c) ==
    /\ pc[c] = "dispatch"
    /\ LET cmd == from_frame(cur[c])
       IN  pc' = CASE cmd.cmd = "Err" -> Panic(c, "panic_cmd")
                   [] cmd.cmd \in {"Get", "Set"} -> [pc EXCEPT ![c] = "lock"]
                   [] OTHER -> Panic(c, "panic_unimpl")
    /\ UNCHANGED <<cur, response, held, db, poisoned, nread, nwritten,
                   lastSet, prevSet, acked, contended, expect, lastLock>>
    /\ UNCHANGED connVars

\* main.rs:54, 61  db[index(key)].lock().unwrap()
Lock(c) ==
    /\ pc[c] = "lock"
    /\ LET s == index(from_frame(cur[c]).key)
       IN  /\ LockFree(s)
           /\ IF s \in poisoned
              THEN /\ pc' = Panic(c, "panic_lock")
                   /\ UNCHANGED held
              ELSE /\ pc' = [pc EXCEPT ![c] = "locked"]
                   /\ held' = [held EXCEPT ![c] = s]
    /\ LET cmd == from_frame(cur[c])
       IN  lastLock' = IF cmd.cmd = "Set" /\ index(cmd.key) \notin poisoned
                       THEN [lastLock EXCEPT ![cmd.key] = cmd.value]
                       ELSE lastLock
    /\ UNCHANGED <<cur, response, db, poisoned, nread, nwritten, lastSet,
                   prevSet, acked, contended, expect>>
    /\ UNCHANGED connVars

\* faulty variant: the guard outlives the match arm
ApplyKeepsGuard(c) ==
    /\ pc[c] = "locked"
    /\ LET cmd == from_frame(cur[c])
       IN  IF cmd.cmd = "Set"
           THEN /\ db' = SetInsert(db, cmd.key, cmd.value)
                /\ response' = [response EXCEPT ![c] = Simple(OK_TEXT)]
                /\ lastSet' = [lastSet EXCEPT ![cmd.key] = cmd.value]
                /\ prevSet' = [prevSet EXCEPT ![cmd.key] = lastSet[cmd.key]]
           ELSE /\ response' = [response EXCEPT ![c] = GetLookup(db, cmd.key)]
                /\ UNCHANGED <<db, lastSet, prevSet>>
    /\ pc' = [pc EXCEPT ![c] = "write"]
    /\ UNCHANGED <<cur, held, poisoned, nread, nwritten, acked, contended,
                   expect, lastLock>>
    /\ UNCHANGED connVars

\* main.rs:55-57, 63-69  the map access under the guard, the reply frame,
\* and the guard's drop at the end of the match arm
Apply(c) ==
    /\ pc[c] = "locked"
    /\ LET cmd == from_frame(cur[c])
       IN  IF cmd.cmd = "Set"
           THEN /\ db' = SetInsert(db, cmd.key, cmd.value)
                /\ response' = [response EXCEPT ![c] = Simple(OK_TEXT)]
                /\ lastSet' = [lastSet EXCEPT ![cmd.key] = cmd.value]
                /\ prevSet' = [prevSet EXCEPT ![cmd.key] = lastSet[cmd.key]]
           ELSE /\ response' = [response EXCEPT ![c] = GetLookup(db, cmd.key)]
                /\ UNCHANGED <<db, lastSet, prevSet>>
    /\ held' = [held EXCEPT ![c] = NoShard]
    /\ pc' = [pc EXCEPT ![c] = "write"]
    /\ UNCHANGED <<cur, poisoned, nread, nwritten, acked, contended, expect,
                   lastLock>>
    /\ UNCHANGED connVars

\* main.rs:73-74  connection.write_frame(&response).await.unwrap(), Ok(()),
\* and the end of the loop body, where `response` is dropped (`frame` was
\* moved into from_frame)
WriteFrame(c) ==
    /\ pc[c] = "write"
    /\ nwritten' = [nwritten EXCEPT ![c] = @ + 1]
    /\ pc' = [pc EXCEPT ![c] = "read"]
    /\ cur' = [cur EXCEPT ![c] = NoFrame]
    /\ response' = [response EXCEPT ![c] = NoFrame]
    /\ expect' = [expect EXCEPT ![c] = NoAck]
    /\ LET cmd == from_frame(cur[c])
       IN  IF cmd.cmd = "Set" /\ SetsInProgress(cmd.key) = {c}
           THEN /\ acked' = [acked EXCEPT ![cmd.key] =
                                IF contended[cmd.key] THEN NoAck
                                ELSE <<cmd.value, c>>]
                /\ contended' = [contended EXCEPT ![cmd.key] = FALSE]
           ELSE UNCHANGED <<acked, contended>>
    /\ UNCHANGED <<held, db, poisoned, nread, lastSet, prevSet, lastLock>>
    /\ UNCHANGED connVars

\* main.rs:73  write_frame returns Err (the peer is gone): unwrap panics
WriteFail(c) ==
    /\ pc[c] = "write"
    /\ pc' = Panic(c, "panic_write")
    /\ UNCHANGED <<cur, response, held, db, poisoned, nread, nwritten,
                   lastSet, prevSet, acked, contended, expect, lastLock>>
    /\ UNCHANGED connVars

Next ==
    \/ \E c \in Conns : Accept(c)
    \/ \E c \in Conns, r \in ReadResults : ReadFrame(c, r)
    \/ \E c \in Conns : Dispatch(c)
    \/ \E c \in Conns : Lock(c)
    \/ \E c \in Conns : Apply(c)
    \/ \E c \in Conns : WriteFrame(c)
    \/ \E c \in Conns : WriteFail(c)

Init == SrvInit /\ ConnIdle

Spec == Init /\ [][Next]_vars

\* A handler that can take a free lock, or that holds one, goes on: the
\* thread running it is inside a synchronous stretch of `process` (no await
\* between lock() and the end of the match arm), and a thread blocked in
\* lock() is woken when the guard is dropped.
Fairness == \A c \in Conns : WF_vars(Lock(c)) /\ WF_vars(Apply(c))

\* Which value a SET carries has no bearing on the locks: under fairness
\* the clients send the frames of ClientFrames with one value for SET.
FairFrames ==
    {f \in ClientFrames :
        from_frame(f).cmd = "Set" => from_frame(f).value # <<>>}

FairNext ==
    \/ \E c \in Conns : Accept(c)
    \/ \E c \in Conns,
          r \in FairFrames \cup {ReadNone, ReadErrReset, ReadErrProtocol} :
            ReadFrame(c, r)
    \/ \E c \in Conns : Dispatch(c)
    \/ \E c \in Conns : Lock(c)
    \/ \E c \in Conns : Apply(c)
    \/ \E c \in Conns : WriteFrame(c)
    \/ \E c \in Conns : WriteFail(c)

FairSpec == Init /\ [][FairNext]_vars /\ Fairness

\* --------------------------------------------------- the Connection pair

U64(hi, mid, lo) == <<hi, mid, lo>>

\* the frames the writer is given: every variant, integers on both sides of
\* twelve decimal digits and u64::MAX, a payload with an embedded CRLF, an
\* empty Array, a command, a nested Array
ConnFrames ==
    {Simple(OK_TEXT), Error(<<69>>), Null,
     Integer(U64(0, 0, 7)),
     Integer(U64(0, 99999, 9999999)),
     Integer(U64(0, 100000, 0)),
     Integer(U64_MAX),
     Bulk(<<>>), Bulk(<<97, CR, LF, 98>>),
     Array(<<>>),
     GetFrame(GET_UPPER, <<97>>),
     Array(<<Array(<<Null, Integer(U64(0, 0, 7))>>), Bulk(<<CR, LF>>)>>),
     Array(<<Integer(U64(0, 0, 1)), Integer(U64(0, 100000, 0))>>)}

\* byte strings of a peer that is no Connection: a Bulk that declares five
\* bytes and carries two, a Simple without its CRLF, an unknown type byte,
\* a non-numeric length
RawInputs ==
    {<<36, 53, CR, LF, 97, 98>>,
     <<43, 79, 75>>,
     <<33, 120, CR, LF>>,
     <<36, 120, CR, LF>>}

Last(sq) == sq[Len(sq)]

\* the peer calls write_frame(frame) (connection.rs:53-98)
PeerWrite(frame) ==
    /\ ~closed
    /\ Len(wlog) < MaxWrites
    /\ ~rawsent
    /\ LET st == write_frame([stream |-> wstream, wire |-> <<>>, ok |-> TRUE],
                             frame)
       IN  /\ wstream' = st.stream
           /\ wire' = wire \o st.wire
           /\ allbytes' = allbytes \o st.wire
           /\ wres' = IF st.ok THEN "ok" ELSE "err"
    /\ wlog' = Append(wlog, frame)
    /\ UNCHANGED <<closed, buffer, rpc, rlog, rawsent, nreads>>
    /\ UNCHANGED srvVars

\* a peer that is no Connection writes bytes to the socket
PeerRaw(bytes) ==
    /\ ~closed
    /\ ~rawsent
    /\ Len(wlog) < MaxWrites
    /\ wire' = wire \o bytes
    /\ allbytes' = allbytes \o bytes
    /\ rawsent' = TRUE
    /\ UNCHANGED <<wstream, wres, closed, buffer, rpc, rlog, wlog, nreads>>
    /\ UNCHANGED srvVars

\* the peer closes its stream
PeerClose ==
    /\ ~closed
    /\ closed' = TRUE
    /\ UNCHANGED <<wstream, wire, wres, buffer, rpc, rlog, wlog, allbytes,
                   rawsent, nreads>>
    /\ UNCHANGED srvVars

\* connection.rs:19-20  read_frame is called (again, after a frame)
ReadFrameCall ==
    /\ rpc = "idle"
    /\ IF rlog = <<>> THEN TRUE ELSE IsFrame(Last(rlog))
    /\ rpc' = "parse"
    /\ nreads' = 0
    /\ UNCHANGED <<wstream, wire, wres, closed, buffer, rlog, wlog, allbytes,
                   rawsent>>
    /\ UNCHANGED srvVars

\* connection.rs:22-24  the top of the loop: parse_frame()?
ParseStep ==
    /\ rpc = "parse"
    /\ LET r == parse_frame(buffer)
       IN  IF r.st = "none"
           THEN /\ rpc' = "read"
                /\ UNCHANGED <<buffer, rlog>>
           ELSE /\ rpc' = "idle"
                /\ buffer' = r.buffer
                /\ rlog' = Append(rlog, r.frame)
    /\ UNCHANGED <<wstream, wire, wres, closed, wlog, allbytes, rawsent,
                   nreads>>
    /\ UNCHANGED srvVars

\* connection.rs:27  read_buf yields the next n bytes of the stream
ReadChunk(n) ==
    /\ rpc = "read"
    /\ n <= Len(wire)
    /\ buffer' = read_buf(buffer, SubSeq(wire, 1, n))
    /\ wire' = SubSeq(wire, n + 1, Len(wire))
    /\ rpc' = "parse"
    /\ nreads' = IF nreads < ChunkCap THEN nreads + 1 ELSE nreads
    /\ UNCHANGED <<wstream, wres, closed, rlog, wlog, allbytes, rawsent>>
    /\ UNCHANGED srvVars

\* connection.rs:27-34  read_buf yields zero bytes: the peer has closed
ReadEof ==
    /\ rpc = "read"
    /\ wire = <<>>
    /\ closed
    /\ rlog' = Append(rlog, eof_result(buffer))
    /\ rpc' = "idle"
    /\ UNCHANGED <<wstream, wire, wres, closed, buffer, wlog, allbytes,
                   rawsent, nreads>>
    /\ UNCHANGED srvVars

ConnNext ==
    \/ \E f \in ConnFrames : PeerWrite(f)
    \/ \E b \in RawInputs : PeerRaw(b)
    \/ PeerClose
    \/ ReadFrameCall
    \/ ParseStep
    \/ \E n \in 1 .. Len(wire) : ReadChunk(n)
    \/ ReadEof

ConnInit == SrvInit /\ ConnIdle

ConnSpec == ConnInit /\ [][ConnNext]_vars

\* ------------------------------------------------------------ one session

\* The handler of the first connection, its read_frame taken at byte level:
\* the client writes command frames (or bytes that are no frame) and may
\* close; `process` calls read_frame, which runs on the Connection, and
\* goes on with what it returns.
SessConn == Min(Conns)

\* main.rs:49  process calls connection.read_frame()
SessCall ==
    /\ pc[SessConn] = "read"
    /\ Len(rlog) = nread[SessConn]
    /\ ReadFrameCall

\* main.rs:49  read_frame has returned; .await.unwrap() and the loop test
SessReturn ==
    /\ pc[SessConn] = "read"
    /\ rpc = "idle"
    /\ Len(rlog) = nread[SessConn] + 1
    /\ ReadFrame(SessConn, Last(rlog))

SessNext ==
    \/ Accept(SessConn)
    \/ \E f \in ClientFrames : PeerWrite(f)
    \/ \E b \in RawInputs : PeerRaw(b)
    \/ PeerClose
    \/ SessCall
    \/ ParseStep
    \/ \E n \in 1 .. Len(wire) : ReadChunk(n)
    \/ ReadEof
    \/ SessReturn
    \/ Dispatch(SessConn)
    \/ Lock(SessConn)
    \/ Apply(SessConn)
    \/ WriteFrame(SessConn)
    \/ WriteFail(SessConn)

SessSpec == Init /\ [][SessNext]_vars

\* ------------------------------------------------------- claims: the server

\* the handler of c is between two commands, or has ended other than by a
\* failed write of the reply
Settled(c) == pc[c] \notin BusyStates \cup {"idle", "panic_write"}

\* C1: on every connection the server sends one reply frame per command
\* frame, the k-th reply answering the k-th command: while a command is in
\* progress exactly the earlier ones are replied to, and once the handler is
\* between commands or has ended, every command it read has its reply.
C1_OneReplyPerCommand ==
    \A c \in Conns :
        /\ pc[c] \in BusyStates => nwritten[c] = nread[c] - 1
        /\ Settled(c) => nwritten[c] = nread[c]

\* the step in which the handler of c answers its GET (the lookup)
GetStep(c) ==
    /\ pc[c] = "locked"
    /\ pc'[c] = "write"
    /\ from_frame(cur[c]).cmd = "Get"

\* the step in which the handler of c applies its SET (the insert)
SetStep(c) ==
    /\ pc[c] = "locked"
    /\ pc'[c] = "write"
    /\ from_frame(cur[c]).cmd = "Set"

\* the values stored under key k, in whichever shard
StoredUnder(shards, k) == {MapGet(shards[s], k) : s \in Shards} \ {NoValue}

\* C2: GET k replies Bulk(v) where v is the value stored under k at the
\* lookup, and replies Null if and only if no SET has written k.
C2_GetRepliesStoredValue ==
    [][\A c \in Conns :
          GetStep(c) =>
              LET k == from_frame(cur[c]).key
              IN  /\ (response'[c] = Null) <=> (lastSet[k] = NoValue)
                  /\ response'[c] # Null =>
                        /\ response'[c].type = "Bulk"
                        /\ StoredUnder(db, k) = {response'[c].val}]_vars

\* a GET answered Bulk on one connection while a GET of a key never written
\* is answered Null on another
C2_Witness ==
    \E c, d \in Conns :
        /\ pc[c] = "write" /\ pc[d] = "write"
        /\ from_frame(cur[c]).cmd = "Get" /\ from_frame(cur[d]).cmd = "Get"
        /\ response[c].type = "Bulk"
        /\ response[d] = Null
        /\ lastSet[from_frame(cur[d]).key] = NoValue

\* C3: SET k v inserts or overwrites the entry of k and replies Simple("OK")
\* whether or not k was present, and a GET of k returns the value of the
\* latest SET of k (last write wins).
C3_SetOverwritesLastWriteWins ==
    [][\A c \in Conns :
          /\ SetStep(c) =>
                LET cmd == from_frame(cur[c])
                IN  /\ response'[c] = Simple(OK_TEXT)
                    /\ StoredUnder(db', cmd.key) = {cmd.value}
          /\ GetStep(c) =>
                LET k == from_frame(cur[c]).key
                IN  lastSet[k] # NoValue => response'[c] = Bulk(lastSet[k])]_vars

\* SET k v1, then SET k v2 with v2 # v1, then GET k answered Bulk(v2)
C3_Witness ==
    \E c \in Conns :
        /\ pc[c] = "write"
        /\ from_frame(cur[c]).cmd = "Get"
        /\ LET k == from_frame(cur[c]).key
           IN  /\ prevSet[k] # NoValue
               /\ lastSet[k] # prevSet[k]
               /\ response[c] = Bulk(lastSet[k])

\* C4: once the OK of SET k v has been flushed on connection A, a GET k read
\* afterwards on any connection is answered Bulk(v), provided no other SET
\* to k was in progress since that SET was read or is read before the GET
\* is answered.
C4_CrossConnectionVisibility ==
    \A c \in Conns :
        (/\ pc[c] = "write"
         /\ from_frame(cur[c]).cmd = "Get"
         /\ expect[c] # NoAck)
            => response[c] = Bulk(expect[c][1])

\* the GET is answered on a connection other than the one that did the SET
C4_Witness ==
    \E c \in Conns :
        /\ pc[c] = "write"
        /\ from_frame(cur[c]).cmd = "Get"
        /\ expect[c] # NoAck
        /\ expect[c][2] # c
        /\ response[c] = Bulk(expect[c][1])

\* C5: a command frame with an unknown name or a wrong argument count is
\* answered with an Error frame and the handler goes on: it is being
\* dispatched, or its Error reply is being written.
C5_ErrorReplyKeepsServing ==
    \A c \in Conns :
        (cur[c] # NoFrame /\ from_frame(cur[c]).cmd \in {"Err", "Unknown"})
            => /\ pc[c] \in {"dispatch", "write"}
               /\ pc[c] = "write" => response[c].type = "Error"

\* the handler of c can take its next step
CanProceed(c) ==
    CASE pc[c] = "idle" ->
            (\A d \in Conns : d < c => pc[d] # "idle") => ENABLED Accept(c)
      [] pc[c] = "read" ->
            /\ ENABLED ReadFrame(c, ReadNone)
            /\ nread[c] < MaxCmds =>
                  \A f \in ClientFrames : ENABLED ReadFrame(c, f)
      [] pc[c] = "dispatch" -> ENABLED Dispatch(c)
      [] pc[c] = "lock" ->
            LET s == index(from_frame(cur[c]).key)
            IN  (\A d \in Conns : held[d] # s) =>
                    /\ ENABLED Lock(c)
                    /\ s \notin poisoned
      [] pc[c] = "locked" -> ENABLED Apply(c)
      [] pc[c] = "write" -> ENABLED WriteFrame(c)
      [] OTHER -> TRUE

\* the handler of c ends by a failure in this step
FailStep(c) == pc[c] \notin PanicStates /\ pc'[c] \in PanicStates

\* C6: a failure on one connection ends at most that connection's handler:
\* the step leaves every other handler, the store and the locks as they
\* were; an ended handler holds no shard lock and no shard is poisoned; and
\* every other handler and the accept loop can take their next step.
C6_FailureIsolation ==
    /\ [](\A c \in Conns :
            /\ pc[c] \in PanicStates \cup {"returned"} => held[c] = NoShard
            /\ CanProceed(c))
    /\ [](poisoned = {})
    /\ [][\A c \in Conns :
            FailStep(c) =>
                /\ \A d \in Conns \ {c} :
                      /\ pc'[d] = pc[d]
                      /\ cur'[d] = cur[d]
                      /\ response'[d] = response[d]
                      /\ held'[d] = held[d]
                /\ UNCHANGED <<db, poisoned, nread, nwritten>>]_vars

\* one handler has panicked on an unimplemented command, another waits for a
\* free shard lock and can take it, and the listener can still accept
C6_Witness ==
    \E c, d \in Conns :
        /\ pc[c] = "panic_unimpl"
        /\ pc[d] = "lock"
        /\ ENABLED Lock(d)

\* C10: at most one handler holds the lock of a shard at any time, and a
\* handler waiting for the lock of shard j can take it whenever nobody holds
\* shard j, whichever other shards are locked.
C10_ShardIsolation ==
    /\ \A s \in Shards : Cardinality({c \in Conns : held[c] = s}) <= 1
    /\ \A c \in Conns :
          pc[c] = "lock" =>
              LET j == index(from_frame(cur[c]).key)
              IN  (\A d \in Conns : held[d] # j) => ENABLED Lock(c)

\* one handler holds shard i while another, having asked for shard j # i,
\* holds j
C10_Witness ==
    \E c, d \in Conns :
        /\ held[c] # NoShard
        /\ held[d] # NoShard
        /\ held[c] # held[d]

\* C11: when connections race to SET one key, the value stored once none of
\* them is between taking the shard lock and its insert is the value of the
\* SET that took the lock last; and a GET of the key is answered Null when no
\* SET of it has taken the lock before the GET did, and otherwise Bulk of the
\* whole value of the SET that took it last before the GET.
C11_RacingWrites ==
    /\ [](\A k \in Keys :
            (/\ lastLock[k] # NoValue
             /\ ~\E c \in Conns : pc[c] = "locked" /\ IsSetOf(cur[c], k))
                => StoredUnder(db, k) = {lastLock[k]})
    /\ [][\A c \in Conns :
            GetStep(c) =>
                LET k == from_frame(cur[c]).key
                IN  response'[c] = IF lastLock[k] = NoValue THEN Null
                                   ELSE Bulk(lastLock[k])]_vars

\* two connections had a SET of the same key in progress at once, with
\* different values; both have done their insert and the value stored is
\* that of the one that took the lock last
C11_Witness ==
    \E c, d \in Conns, k \in Keys :
        /\ c # d
        /\ pc[c] = "write" /\ pc[d] = "write"
        /\ IsSetOf(cur[c], k) /\ IsSetOf(cur[d], k)
        /\ from_frame(cur[c]).value # from_frame(cur[d]).value
        /\ lastLock[k] = from_frame(cur[d]).value
        /\ StoredUnder(db, k) = {lastLock[k]}

\* C12: SET k v changes the entry of k only: every other key keeps, in every
\* shard, the entry it had.  And a GET of k on the connection whose SET k v
\* was answered before, no SET of k having been read on any other connection
\* in the meantime, is answered Bulk(v), whatever the other connections do
\* to other keys of the same shard or of other shards.
C12_KeyIndependence ==
    /\ [][\A c \in Conns :
            SetStep(c) =>
                \A s \in Shards, k \in Keys \ {from_frame(cur[c]).key} :
                    MapGet(db'[s], k) = MapGet(db[s], k)]_vars
    /\ [](\A c \in Conns :
            (/\ pc[c] = "write"
             /\ from_frame(cur[c]).cmd = "Get"
             /\ expect[c] # NoAck
             /\ expect[c][2] = c)
                => response[c] = Bulk(expect[c][1]))

\* a connection reads back the value it wrote while the other connection
\* has written another key of the same shard
C12_Witness ==
    \E c, d \in Conns :
        /\ c # d
        /\ pc[c] = "write"
        /\ from_frame(cur[c]).cmd = "Get"
        /\ expect[c] # NoAck
        /\ expect[c][2] = c
        /\ response[c] = Bulk(expect[c][1])
        /\ pc[d] = "write"
        /\ from_frame(cur[d]).cmd = "Set"
        /\ from_frame(cur[d]).key # from_frame(cur[c]).key
        /\ index(from_frame(cur[d]).key) = index(from_frame(cur[c]).key)

\* the bytes write_frame hands to the stream for one frame, written on a
\* Connection whose BufWriter is empty
Encode(frame) ==
    write_frame([stream |-> <<>>, wire |-> <<>>, ok |-> TRUE], frame).wire

\* C13: when the latest SET of k stored the empty value, GET k is answered
\* Bulk of the empty byte sequence and not Null, and the two differ on the
\* wire: the reply's bytes decode to Bulk(<<>>) and are not those of Null.
C13_EmptyIsNotAbsent ==
    [][\A c \in Conns :
          (GetStep(c) /\ lastSet[from_frame(cur[c]).key] = <<>>) =>
              /\ response'[c] = Bulk(<<>>)
              /\ response'[c] # Null
              /\ parse_frame(Encode(response'[c])).frame = Bulk(<<>>)
              /\ Encode(response'[c]) # Encode(Null)]_vars

\* SET k "" was applied and the GET of k is answered with the empty Bulk
C13_Witness ==
    \E c \in Conns :
        /\ pc[c] = "write"
        /\ from_frame(cur[c]).cmd = "Get"
        /\ lastSet[from_frame(cur[c]).key] = <<>>
        /\ response[c] = Bulk(<<>>)

\* C14: a handler that waits on the socket, for the next frame or to write
\* and flush its reply, holds no shard lock; a lock is held only between
\* its acquisition and the one map access of the command, which releases it.
C14_NoLockAcrossIO ==
    /\ [](\A c \in Conns :
            /\ pc[c] \in {"read", "write"} => held[c] = NoShard
            /\ held[c] # NoShard => pc[c] = "locked")
    /\ [][\A c \in Conns :
            /\ (held[c] = NoShard /\ held'[c] # NoShard) =>
                    pc[c] = "lock" /\ pc'[c] = "locked"
            /\ (held[c] # NoShard /\ pc'[c] # pc[c]) =>
                    held'[c] = NoShard /\ pc'[c] = "write"]_vars

\* a handler is about to write its reply, holding nothing, while another
\* handler already holds the lock of the shard the first one used
C14_Witness ==
    \E c, d \in Conns :
        /\ pc[c] = "write"
        /\ held[c] = NoShard
        /\ pc[d] = "locked"
        /\ held[d] = index(from_frame(cur[c]).key)

\* C19: the store has the N shards it was built with; index maps every key
\* into 0 .. N-1, the same shard at every call; a key that is stored is in
\* shard index(key) and in no other shard, and a key that was SET is stored.
C19_ShardPlacement ==
    /\ DOMAIN db = 0 .. (N - 1)
    /\ Cardinality(DOMAIN db) = N
    /\ \A k \in Keys : index(k) \in 0 .. (N - 1)
    /\ \A s \in DOMAIN db : \A k \in DOMAIN db[s] : s = index(k)
    /\ \A k \in Keys :
          lastSet[k] # NoValue =>
              {s \in DOMAIN db : k \in DOMAIN db[s]} = {index(k)}

\* two keys are stored in one shard and a third key in another
C19_Witness ==
    \E k1, k2, k3 \in Keys :
        /\ k1 # k2
        /\ index(k1) = index(k2)
        /\ index(k3) # index(k1)
        /\ {k1, k2} \subseteq DOMAIN db[index(k1)]
        /\ k3 \in DOMAIN db[index(k3)]

\* C20: a handler that asks for a shard lock holds none, a handler that
\* holds one can do its map access and release it without waiting for
\* anything, and under fair scheduling every handler that asks for a shard
\* lock gets it.
C20_DeadlockFreedom ==
    /\ [](\A c \in Conns :
            /\ pc[c] = "lock" => held[c] = NoShard
            /\ pc[c] = "locked" => held[c] # NoShard /\ ENABLED Apply(c))
    /\ \A c \in Conns : (pc[c] = "lock") ~> (pc[c] = "locked")

\* both handlers ask for the lock of the same shard at once
C20_Witness ==
    \E c, d \in Conns :
        /\ c # d
        /\ pc[c] = "lock" /\ pc[d] = "lock"
        /\ index(from_frame(cur[c]).key) = index(from_frame(cur[d]).key)

\* --------------------------------------------------- claims: Connection

\* C7: for every frame given to write_frame, write_frame succeeds and the
\* peer's read_frame returns an equal frame: the k-th result of read_frame
\* is the k-th frame written, and after them only a clean end of stream.
C7_RoundTrip ==
    ~rawsent =>
        /\ wres # "err"
        /\ \A i \in 1 .. Len(rlog) :
              IF i <= Len(wlog) THEN rlog[i] = wlog[i] ELSE rlog[i] = ReadNone

\* what successive read_frame calls return when every byte is in the buffer
\* before the first call: the frames, then a protocol error if one is met
RECURSIVE OneShot(_)
OneShot(buf) ==
    LET r == parse_frame(buf)
    IN  CASE r.st = "frame" -> <<r.frame>> \o OneShot(r.buffer)
          [] r.st = "error" -> <<r.frame>>
          [] OTHER -> <<>>

\* the bytes left in the buffer after those results
RECURSIVE OneShotRest(_)
OneShotRest(buf) ==
    LET r == parse_frame(buf)
    IN  IF r.st = "frame" THEN OneShotRest(r.buffer) ELSE buf

\* C8: however the bytes are split into stream reads, read_frame returns what
\* it returns when all bytes arrive in a single read: each frame (or protocol
\* error) returned so far is the one-shot result of the same rank, nothing
\* is returned for an incomplete prefix while the stream is open (an
\* end-of-stream result needs the peer's close and comes after every
\* one-shot result), and once the reader waits on an empty stream every
\* one-shot result has been returned.
C8_IncrementalDelivery ==
    LET full == OneShot(allbytes)
    IN  /\ \A i \in 1 .. Len(rlog) :
              IF rlog[i] \in {ReadNone, ReadErrReset}
              THEN closed /\ i = Len(full) + 1
              ELSE i <= Len(full) /\ rlog[i] = full[i]
        /\ (rpc = "read" /\ wire = <<>>) => Len(rlog) = Len(full)

\* an Array frame written by the peer came back after several stream reads
C8_Witness ==
    /\ ~rawsent
    /\ rpc = "idle"
    /\ rlog # <<>>
    /\ nreads = ChunkCap
    /\ Last(rlog).type = "Array"
    /\ Len(Last(rlog).val) > 0
    /\ Last(rlog) = wlog[Len(rlog)]

\* what is left for a read_frame call in progress to do
Measure == 2 * Len(wire) + (IF rpc = "parse" THEN 1 ELSE 0)

\* the stream read on which read_frame waits (connection.rs:27) completes
StreamRead == (\E n \in 1 .. Len(wire) : ReadChunk(n)) \/ ReadEof

\* C9: when the stream yields zero bytes, read_frame returns None if the
\* buffer is empty and the connection-reset error if it holds a partial
\* frame; and once the peer has closed, the stream read, the one place
\* where read_frame waits, always completes and every step of the call
\* brings it nearer its return, so it never waits forever.
C9_EndOfStream ==
    /\ [][(rpc = "read" /\ rpc' = "idle") =>
            /\ closed /\ wire = <<>>
            /\ buffer = <<>> => Last(rlog') = ReadNone
            /\ buffer # <<>> => Last(rlog') = ReadErrReset]_vars
    /\ []((closed /\ rpc = "read") => ENABLED StreamRead)
    /\ [][(closed /\ rpc # "idle") =>
            (rpc' = "idle" \/ Measure' < Measure)]_vars

\* a Bulk that declares five bytes and carries two, then the peer's close:
\* read_frame has returned the connection-reset error
C9_Witness ==
    /\ allbytes = <<36, 53, CR, LF, 97, 98>>
    /\ closed
    /\ rpc = "idle"
    /\ rlog = <<ReadErrReset>>

\* the encodings of the frames among the results of read_frame, in order
RECURSIVE Consumed(_)
Consumed(log) ==
    IF log = <<>> THEN <<>>
    ELSE (IF IsFrame(log[1]) THEN Encode(log[1]) ELSE <<>>)
             \o Consumed(Tail(log))

\* C15: a parse step that returns a frame removes from the front of the
\* buffer exactly the bytes of that frame's encoding and leaves the bytes
\* behind them as they were; a parse step that returns no frame leaves the
\* buffer unchanged.  Hence the encodings of the frames returned so far,
\* the buffer and the bytes still in the stream make up, in this order, the
\* bytes that were sent: none is lost, duplicated or read again.
C15_ExactConsumption ==
    /\ [][(rpc = "parse" /\ rpc' # "parse") =>
            IF rpc' = "idle" /\ IsFrame(Last(rlog'))
            THEN buffer = Encode(Last(rlog')) \o buffer'
            ELSE buffer' = buffer]_vars
    /\ [](Consumed(rlog) \o buffer \o wire = allbytes)

\* two frames arrived in one read: the first call of read_frame read the
\* stream once, the second returned its frame without reading the stream
C15_Witness ==
    /\ ~rawsent
    /\ rpc = "idle"
    /\ Len(rlog) = 2
    /\ rlog = wlog
    /\ nreads = 0
    /\ buffer = <<>>
    /\ wire = <<>>

\* in a step where write_frame is called: the bytes it hands to the stream
\* after those the BufWriter still held from an earlier, failed call
HandedOver ==
    SubSeq(allbytes', Len(allbytes) + Len(wstream) + 1, Len(allbytes'))

\* C17: when write_frame returns Ok, the write buffer is empty and the bytes
\* handed to the stream in that call are, after whatever an earlier failed
\* call had left in the buffer, the whole encoding of the frame, the items
\* of an Array included: they decode to that frame and nothing is left over.
C17_FlushBeforeReturn ==
    /\ [](wres = "ok" => wstream = <<>>)
    /\ [][(Len(wlog') > Len(wlog) /\ wres' = "ok") =>
            /\ wstream' = <<>>
            /\ Len(allbytes') > Len(allbytes) + Len(wstream)
            /\ SubSeq(allbytes', 1, Len(allbytes) + Len(wstream))
                    = allbytes \o wstream
            /\ OneShot(HandedOver) = <<Last(wlog')>>
            /\ OneShotRest(HandedOver) = <<>>
            /\ wire' = wire \o wstream \o HandedOver]_vars

\* write_frame returned Ok for an Array with an Array inside, and all its
\* bytes are with the stream
C17_Witness ==
    /\ wlog # <<>>
    /\ wres = "ok"
    /\ wstream = <<>>
    /\ Last(wlog).type = "Array"
    /\ Len(Last(wlog).val) = 2
    /\ Last(wlog).val[1].type = "Array"
    /\ OneShot(allbytes) = wlog

\* C18: write_frame succeeds whatever the size of the numbers it has to
\* write: for an Integer of any 64-bit value the bytes handed to the stream
\* are ':', the complete decimal text and CRLF, and for a Bulk they are '$',
\* the decimal text of the length, CRLF, the payload and CRLF.
C18_DecimalFullRange ==
    [][Len(wlog') > Len(wlog) =>
          /\ wres' = "ok"
          /\ Last(wlog').type = "Integer" =>
                HandedOver = <<58>> \o fmt_u64(Last(wlog').val) \o <<CR, LF>>
          /\ Last(wlog').type = "Bulk" =>
                HandedOver = <<36>> \o fmt_u64(FromNat(Len(Last(wlog').val)))
                                 \o <<CR, LF>> \o Last(wlog').val
                                 \o <<CR, LF>>]_vars

\* ------------------------------------------------------ claims: one session

\* read_frame has returned the error of Frame::check / Frame::parse
ProtocolErrorReturned == IF rlog = <<>> THEN FALSE
                         ELSE Last(rlog) = ReadErrProtocol

\* C16: when Frame::check reports a protocol error on the buffered bytes,
\* the parse step of read_frame returns that error at once: no frame, no
\* further stream read, the buffer left as it is.  The handler then ends
\* (it can take the result, and all it does with it is end), holding no
\* lock, and from the error on the store is never changed and read_frame
\* returns nothing more.
C16_ProtocolErrorEndsSession ==
    /\ [][(rpc = "parse" /\ rpc' # "parse" /\ check(buffer, 0).st = "error") =>
            /\ rpc' = "idle"
            /\ rlog' = Append(rlog, ReadErrProtocol)
            /\ wire' = wire
            /\ buffer' = buffer]_vars
    /\ [](ProtocolErrorReturned =>
            /\ rpc = "idle"
            /\ held[SessConn] = NoShard
            /\ pc[SessConn] \in {"read", "panic_read"}
            /\ pc[SessConn] = "read" => ENABLED SessReturn)
    /\ [][ProtocolErrorReturned =>
            /\ db' = db
            /\ rlog' = rlog
            /\ rpc' = rpc
            /\ pc'[SessConn] \in {pc[SessConn], "panic_read"}]_vars

\* a SET was served, then the client sent bytes that are no frame: the
\* handler has ended and the store holds what the SET wrote
C16_Witness ==
    /\ Len(rlog) = 2
    /\ from_frame(rlog[1]).cmd = "Set"
    /\ rlog[2] = ReadErrProtocol
    /\ pc[SessConn] = "panic_read"
    /\ StoredUnder(db, from_frame(rlog[1]).key) = {from_frame(rlog[1]).value}

=============================================================================
